---- MODULE Spec2Model ----
(***************************************************************************)
(* useBlockSync: the two-way bridge between a controlled block value and   *)
(* the block-editor store                                                  *)
(* (packages/block-editor/src/components/provider/use-block-sync.js).      *)
(*                                                                         *)
(* Block trees are compared by reference only, so a tree is modelled by    *)
(* the identity of its reference: a number in Trees.  Absent models        *)
(* undefined/null, the only falsy values a prop of the hook can take.      *)
(* Every store call of the hook delivers its change notification            *)
(* synchronously, so the subscriber runs inside the action of the caller.  *)
(***************************************************************************)
EXTENDS Integers, Sequences, FiniteSets, TLC

\* Number of distinct block tree references.
NumTrees == 2
\* Longest pendingChanges.outgoing that store activity may still extend.
MaxOutgoing == 2
\* Number of changes the user makes in the store before stopping, in the
\* scenario of an external source that reflects what it receives.
MaxEdits == 2

Absent == 0
Trees == 1..NumTrees
\* The empty tree [] is a reference like any other (and truthy).
EmptyTree == CHOOSE t \in Trees : \A u \in Trees : t <= u
MaybeTree == {Absent} \cup Trees
\* clientId = null is the top-level block list, "c1" a container block.
NoClient == "null"
ClientIds == {NoClient, "c1"}
\* Selection positions are opaque and always truthy.  The store's selection is
\* the caret the user put at UserPosition unless the hook reset it to the
\* controlled range, which runs from ControlledStart to ControlledEnd.
NoPosition == "undefined"
UserPosition == "caret"
ControlledStart == "start"
ControlledEnd == "end"
\* The identities the onChange and onInput props can have: a parent passes
\* the same pair again or a pair of new functions.
Handlers ==
    {[onChange |-> "onChangeA", onInput |-> "onInputA"],
     [onChange |-> "onChangeB", onInput |-> "onInputB"]}

VARIABLES
    mounted,         \* is the hook's component mounted
    props,           \* the props of the last render
    store,           \* the core/block-editor store
    pendingChanges,  \* pendingChanges.current
    sub,             \* the subscription of the outbound effect and its closure
    log,             \* what the last action called and decided, in order
    source           \* the reflecting external source and its user

vars == <<mounted, props, store, pendingChanges, sub, log, source>>

\* The props the effects' dependency arrays and closures read.  The selection
\* props are read only by the run of the inbound effect of their own render,
\* so they are inputs of that run and are not kept.
NoProps ==
    [clientId |-> NoClient, value |-> Absent, isDisabled |-> FALSE,
     onChange |-> "noop", onInput |-> "noop"]

PropsSet ==
    {[clientId |-> c, value |-> v, isDisabled |-> d,
      onChange |-> h.onChange, onInput |-> h.onInput] :
        c \in ClientIds, v \in MaybeTree, d \in BOOLEAN, h \in Handlers}

\* Inputs of one run of the effects: the selection props of the render and the
\* flags the store reports after a block change made by the hook.
InputSet ==
    [selectionStart : {NoPosition, ControlledStart},
     selectionEnd : {NoPosition, ControlledEnd},
     isPersistent : BOOLEAN, isIgnored : BOOLEAN]

\* The inputs that can make a difference to a run of the effects: the selection
\* props when the inbound effect runs, the flags when it changes blocks.
NoInput ==
    [selectionStart |-> NoPosition, selectionEnd |-> NoPosition,
     isPersistent |-> FALSE, isIgnored |-> FALSE]

FreshPendingChanges == [incoming |-> Absent, outgoing |-> <<>>]

NoSubscription ==
    [subscribed |-> FALSE, clientId |-> NoClient,
     onChange |-> "noop", onInput |-> "noop",
     blocks |-> Absent, isPersistent |-> FALSE,
     previousAreBlocksDifferent |-> FALSE]

Last(seq) == seq[Len(seq)]
Includes(seq, x) == \E i \in 1..Len(seq) : seq[i] = x

----------------------------------------------------------------------------
(* The running state a handler threads through the calls it makes.         *)
Run(st, pc, sb, lg) == [store |-> st, pendingChanges |-> pc, sub |-> sb, log |-> lg]

Logged(s, e) == [s EXCEPT !.log = Append(@, e)]

----------------------------------------------------------------------------
(* The subscriber of the outbound effect.                                  *)

getBlocks(st, clientId) == st.blocks[clientId]

\* Mutation of updateParent: the two callbacks are swapped.
updateParent_Swapped(s) ==
    Logged(s, [op |-> IF s.sub.isPersistent THEN "onInput" ELSE "onChange",
               fn |-> IF s.sub.isPersistent THEN s.sub.onInput ELSE s.sub.onChange,
               blocks |-> s.sub.blocks,
               selectionStart |-> s.store.selectionStart,
               selectionEnd |-> s.store.selectionEnd,
               outgoing |-> s.pendingChanges.outgoing])

\* Mutation of updateParent: every change is reported as transient.
updateParent_AlwaysOnInput(s) ==
    Logged(s, [op |-> "onInput",
               fn |-> s.sub.onInput,
               blocks |-> s.sub.blocks,
               selectionStart |-> s.store.selectionStart,
               selectionEnd |-> s.store.selectionEnd,
               outgoing |-> s.pendingChanges.outgoing])

\* The call of onChange or onInput with the tree and the store's selection.
updateParent(s) ==
    Logged(s, [op |-> IF s.sub.isPersistent THEN "onChange" ELSE "onInput",
               fn |-> IF s.sub.isPersistent THEN s.sub.onChange ELSE s.sub.onInput,
               blocks |-> s.sub.blocks,
               selectionStart |-> s.store.selectionStart,
               selectionEnd |-> s.store.selectionEnd,
               outgoing |-> s.pendingChanges.outgoing])

\* Mutation of ShouldSuppress: a pending incoming reset is not looked at.
ShouldSuppress_IncomingNotChecked(areBlocksDifferent, incoming, isIgnored) ==
    areBlocksDifferent /\ isIgnored

\* The condition of the early return: the change is the hook's own reset
\* arriving, or one the store marks as ignored.
ShouldSuppress(areBlocksDifferent, incoming, isIgnored) ==
    areBlocksDifferent /\ (incoming # Absent \/ isIgnored)

\* Mutation of DidPersistenceChange: the negation of areBlocksDifferent is
\* dropped, so an unchanged tree is never committed.
DidPersistenceChange_NegationDropped(previous, different, newIsPersistent, isPersistent) ==
    /\ previous
    /\ different
    /\ newIsPersistent
    /\ ~isPersistent

\* previous is previousAreBlocksDifferent, different areBlocksDifferent.
DidPersistenceChange(previous, different, newIsPersistent, isPersistent) ==
    /\ previous
    /\ ~different
    /\ newIsPersistent
    /\ ~isPersistent

SubscribeCallback(s0) ==
    LET newBlocks == getBlocks(s0.store, s0.sub.clientId)
        newIsPersistent == s0.store.isPersistent
        areBlocksDifferent == newBlocks # s0.sub.blocks
        didPersistenceChange ==
            DidPersistenceChange(s0.sub.previousAreBlocksDifferent,
                                 areBlocksDifferent, newIsPersistent,
                                 s0.sub.isPersistent)
        s == Logged(s0, [op |-> "notify",
                         newBlocks |-> newBlocks,
                         newIsPersistent |-> newIsPersistent,
                         isIgnored |-> s0.store.isIgnored,
                         incoming |-> s0.pendingChanges.incoming,
                         areBlocksDifferent |-> areBlocksDifferent,
                         didPersistenceChange |-> didPersistenceChange])
    IN  IF ShouldSuppress(areBlocksDifferent, s.pendingChanges.incoming,
                          s.store.isIgnored)
        THEN [s EXCEPT !.pendingChanges.incoming = Absent,
                       !.sub.blocks = newBlocks,
                       !.sub.isPersistent = newIsPersistent]
        ELSE LET t == IF areBlocksDifferent \/ didPersistenceChange
                      THEN updateParent(
                             [s EXCEPT !.sub.blocks = newBlocks,
                                       !.sub.isPersistent = newIsPersistent,
                                       !.pendingChanges.outgoing =
                                            Append(@, newBlocks)])
                      ELSE s
             IN  [t EXCEPT !.sub.previousAreBlocksDifferent = areBlocksDifferent]

\* registry.subscribe listeners run synchronously after a store change.
Notify(s) == IF s.sub.subscribed THEN SubscribeCallback(s) ELSE s

----------------------------------------------------------------------------
(* The store's actions.  store.listeners counts the listeners the hook has  *)
(* registered with registry.subscribe and not removed.                     *)
(* A block change sets the two flags the selectors                         *)
(* isLastBlockChangePersistent and __unstableIsLastBlockChangeIgnored      *)
(* report; a change announced by __unstableMarkNextChangeAsNotPersistent   *)
(* is not persistent.                                                      *)

BlockChange(st, clientId, blocks, isPersistent, isIgnored) ==
    [st EXCEPT !.blocks[clientId] = blocks,
               !.isPersistent = IF st.nextNotPersistent THEN FALSE ELSE isPersistent,
               !.isIgnored = isIgnored,
               !.nextNotPersistent = FALSE]

resetBlocks(s, blocks, inp) ==
    Notify(Logged(
        [s EXCEPT !.store = BlockChange(@, NoClient, blocks,
                                        inp.isPersistent, inp.isIgnored)],
        [op |-> "resetBlocks", blocks |-> blocks]))

replaceInnerBlocks(s, clientId, blocks, inp) ==
    Notify(Logged(
        [s EXCEPT !.store = BlockChange(@, clientId, blocks,
                                        inp.isPersistent, inp.isIgnored)],
        [op |-> "replaceInnerBlocks", clientId |-> clientId, blocks |-> blocks]))

setHasControlledInnerBlocks(s, clientId, flag) ==
    Notify(Logged(
        s,
        [op |-> "setHasControlledInnerBlocks", clientId |-> clientId,
         flag |-> flag]))

markNextChangeAsNotPersistent(s) ==
    Notify(Logged([s EXCEPT !.store.nextNotPersistent = TRUE],
                  [op |-> "markNextChangeAsNotPersistent"]))

resetSelection(s, start, end) ==
    Notify(Logged([s EXCEPT !.store.selectionStart = start,
                            !.store.selectionEnd = end],
                  [op |-> "resetSelection", selectionStart |-> start,
                   selectionEnd |-> end]))

----------------------------------------------------------------------------
(* The hook.                                                               *)

\* Mutation of setControlledBlocks: the container is ignored and the whole
\* top-level tree is reset.
setControlledBlocks_AlwaysTopLevel(s, p, inp) ==
    IF p.value = Absent THEN s ELSE resetBlocks(s, p.value, inp)

\* Mutation of setControlledBlocks: the inner blocks are replaced before
\* the container is marked as controlled and the change as not persistent.
setControlledBlocks_ReplaceFirst(s, p, inp) ==
    IF p.value = Absent
    THEN s
    ELSE IF p.clientId # NoClient
         THEN markNextChangeAsNotPersistent(
                  setHasControlledInnerBlocks(
                      replaceInnerBlocks(s, p.clientId, p.value, inp),
                      p.clientId, TRUE))
         ELSE resetBlocks(s, p.value, inp)

setControlledBlocks(s, p, inp) ==
    IF p.value = Absent
    THEN s
    ELSE IF p.clientId # NoClient
         THEN replaceInnerBlocks(
                  markNextChangeAsNotPersistent(
                      setHasControlledInnerBlocks(s, p.clientId, TRUE)),
                  p.clientId, p.value, inp)
         ELSE resetBlocks(s, p.value, inp)

\* Mutation of Unsubscribe: the cleanup leaves the listener registered.
Unsubscribe_ListenerKept(s) ==
    s

\* The cleanup of the outbound effect: an effect that subscribed returned
\* the function that removes its listener, a disabled one returned nothing.
Unsubscribe(s) ==
    IF s.sub.subscribed
    THEN [s EXCEPT !.sub = NoSubscription, !.store.listeners = @ - 1]
    ELSE s

\* Mutation of OutboundEffect: the subscriber starts from the tree the
\* store holds when it subscribes.
OutboundEffect_BlocksFromStore(s, p) ==
    IF p.isDisabled
    THEN s
    ELSE [s EXCEPT !.store.listeners = @ + 1,
                   !.sub =
               [subscribed |-> TRUE, clientId |-> p.clientId,
                onChange |-> p.onChange, onInput |-> p.onInput,
                blocks |-> getBlocks(s.store, p.clientId),
                isPersistent |-> s.store.isPersistent,
                previousAreBlocksDifferent |-> FALSE]]

\* The body of the outbound effect: subscribe unless disabled.
OutboundEffect(s, p) ==
    IF p.isDisabled
    THEN s
    ELSE [s EXCEPT !.store.listeners = @ + 1,
                   !.sub =
               [subscribed |-> TRUE, clientId |-> p.clientId,
                onChange |-> p.onChange, onInput |-> p.onInput,
                blocks |-> Absent,
                isPersistent |-> s.store.isPersistent,
                previousAreBlocksDifferent |-> FALSE]]

\* Mutation of InboundEffect: the value is never recognised as an echo.
InboundEffect_NoEchoCheck(s0, p, inp) ==
    LET s == Logged(s0, [op |-> "effect", value |-> p.value,
                         clientId |-> p.clientId,
                         selectionStart |-> inp.selectionStart,
                         selectionEnd |-> inp.selectionEnd,
                         includes |->
                             Includes(s0.pendingChanges.outgoing, p.value)])
        t == setControlledBlocks(
                 [s EXCEPT !.pendingChanges.outgoing = <<>>,
                           !.pendingChanges.incoming = p.value],
                 p, inp)
    IN  IF inp.selectionStart # NoPosition /\ inp.selectionEnd # NoPosition
        THEN resetSelection(t, inp.selectionStart, inp.selectionEnd)
        ELSE t

\* Mutation of InboundEffect: any match in outgoing empties it.
InboundEffect_ClearOnAnyMatch(s0, p, inp) ==
    LET s == Logged(s0, [op |-> "effect", value |-> p.value,
                         clientId |-> p.clientId,
                         selectionStart |-> inp.selectionStart,
                         selectionEnd |-> inp.selectionEnd,
                         includes |->
                             Includes(s0.pendingChanges.outgoing, p.value)])
    IN  IF Includes(s.pendingChanges.outgoing, p.value)
        THEN [s EXCEPT !.pendingChanges.outgoing = <<>>]
        ELSE LET t == setControlledBlocks(
                          [s EXCEPT !.pendingChanges.outgoing = <<>>,
                                    !.pendingChanges.incoming = p.value],
                          p, inp)
             IN  IF inp.selectionStart # NoPosition /\ inp.selectionEnd # NoPosition
                 THEN resetSelection(t, inp.selectionStart, inp.selectionEnd)
                 ELSE t

\* Mutation of InboundEffect: a reset leaves the queued pushes in outgoing.
InboundEffect_OutgoingKept(s0, p, inp) ==
    LET s == Logged(s0, [op |-> "effect", value |-> p.value,
                         clientId |-> p.clientId,
                         selectionStart |-> inp.selectionStart,
                         selectionEnd |-> inp.selectionEnd,
                         includes |->
                             Includes(s0.pendingChanges.outgoing, p.value)])
    IN  IF Includes(s.pendingChanges.outgoing, p.value)
        THEN IF Last(s.pendingChanges.outgoing) = p.value
             THEN [s EXCEPT !.pendingChanges.outgoing = <<>>]
             ELSE s
        ELSE LET t == setControlledBlocks(
                          [s EXCEPT !.pendingChanges.incoming = p.value],
                          p, inp)
             IN  IF inp.selectionStart # NoPosition /\ inp.selectionEnd # NoPosition
                 THEN resetSelection(t, inp.selectionStart, inp.selectionEnd)
                 ELSE t

\* Mutation of InboundEffect: the selection is reset when either bound is
\* present.
InboundEffect_EitherBound(s0, p, inp) ==
    LET s == Logged(s0, [op |-> "effect", value |-> p.value,
                         clientId |-> p.clientId,
                         selectionStart |-> inp.selectionStart,
                         selectionEnd |-> inp.selectionEnd,
                         includes |->
                             Includes(s0.pendingChanges.outgoing, p.value)])
    IN  IF Includes(s.pendingChanges.outgoing, p.value)
        THEN IF Last(s.pendingChanges.outgoing) = p.value
             THEN [s EXCEPT !.pendingChanges.outgoing = <<>>]
             ELSE s
        ELSE LET t == setControlledBlocks(
                          [s EXCEPT !.pendingChanges.outgoing = <<>>,
                                    !.pendingChanges.incoming = p.value],
                          p, inp)
             IN  IF inp.selectionStart # NoPosition \/ inp.selectionEnd # NoPosition
                 THEN resetSelection(t, inp.selectionStart, inp.selectionEnd)
                 ELSE t

\* The body of the inbound effect.
InboundEffect(s0, p, inp) ==
    LET s == Logged(s0, [op |-> "effect", value |-> p.value,
                         clientId |-> p.clientId,
                         selectionStart |-> inp.selectionStart,
                         selectionEnd |-> inp.selectionEnd,
                         includes |->
                             Includes(s0.pendingChanges.outgoing, p.value)])
    IN  IF Includes(s.pendingChanges.outgoing, p.value)
        THEN IF Last(s.pendingChanges.outgoing) = p.value
             THEN [s EXCEPT !.pendingChanges.outgoing = <<>>]
             ELSE s
        ELSE LET t == setControlledBlocks(
                          [s EXCEPT !.pendingChanges.outgoing = <<>>,
                                    !.pendingChanges.incoming = p.value],
                          p, inp)
             IN  IF inp.selectionStart # NoPosition /\ inp.selectionEnd # NoPosition
                 THEN resetSelection(t, inp.selectionStart, inp.selectionEnd)
                 ELSE t

\* Which effects a render runs: React compares each dependency array with
\* that of the previous render; cleanups run before bodies, in order.
OutboundDepsChanged(old, new) ==
    old.onChange # new.onChange \/ old.onInput # new.onInput
        \/ old.clientId # new.clientId

InboundDepsChanged(old, new) ==
    old.value # new.value \/ old.clientId # new.clientId

RunEffects(s, old, new, inp, first) ==
    LET a == IF first \/ OutboundDepsChanged(old, new)
             THEN OutboundEffect(Unsubscribe(s), new)
             ELSE s
    IN  IF first \/ InboundDepsChanged(old, new)
        THEN InboundEffect(a, new, inp)
        ELSE a

\* The props a parent passes next: another entity (clientId, value), other
\* handlers, or the disabled flag flipped.
NextProps(old) ==
    {p \in PropsSet :
        /\ p # old
        /\ \/ p.onChange = old.onChange /\ p.onInput = old.onInput
                /\ p.isDisabled = old.isDisabled
           \/ p.clientId = old.clientId /\ p.value = old.value
                /\ p.isDisabled = old.isDisabled
           \/ p.clientId = old.clientId /\ p.value = old.value
                /\ p.onChange = old.onChange /\ p.onInput = old.onInput}

Inputs(old, new, first) ==
    IF first \/ InboundDepsChanged(old, new)
    THEN {inp \in InputSet :
            /\ (new.value = Absent \/ Includes(pendingChanges.outgoing, new.value))
                  => ~inp.isPersistent /\ ~inp.isIgnored
            /\ new.clientId # NoClient => ~inp.isPersistent}
    ELSE {NoInput}

----------------------------------------------------------------------------
Current == Run(store, pendingChanges, sub, <<>>)

Commit(s) ==
    /\ store' = s.store
    /\ pendingChanges' = s.pendingChanges
    /\ sub' = s.sub
    /\ log' = s.log

Init ==
    /\ mounted = FALSE
    /\ props = NoProps
    /\ store = [blocks |-> [c \in ClientIds |-> EmptyTree],
                isPersistent |-> FALSE, isIgnored |-> FALSE,
                nextNotPersistent |-> FALSE,
                selectionStart |-> UserPosition, selectionEnd |-> UserPosition,
                listeners |-> 0]
    /\ pendingChanges = FreshPendingChanges
    /\ sub = NoSubscription
    /\ log = <<>>
    /\ source = [received |-> <<>>, edits |-> MaxEdits]

\* First render: useRef creates pendingChanges, then both effects run.
Mount ==
    /\ ~mounted
    /\ \E p \in PropsSet : \E inp \in Inputs(NoProps, p, TRUE) :
        /\ mounted' = TRUE
        /\ props' = p
        /\ Commit(RunEffects(Current, NoProps, p, inp, TRUE))
    /\ UNCHANGED source

\* A later render with new props.
Rerender ==
    /\ mounted
    /\ \E p \in NextProps(props) : \E inp \in Inputs(props, p, FALSE) :
        /\ mounted' = TRUE
        /\ props' = p
        /\ Commit(RunEffects(Current, props, p, inp, FALSE))
    /\ UNCHANGED source

\* Unmount: the cleanup of the outbound effect runs, the ref is dropped.
Unmount ==
    /\ mounted
    /\ mounted' = FALSE
    /\ props' = NoProps
    /\ Commit([Unsubscribe(Current) EXCEPT !.pendingChanges = FreshPendingChanges])
    /\ UNCHANGED source

\* A block change of the store not made by this hook (a user edit, another
\* bridge, a "mark last change as persistent" action), with its notification.
StoreEdit ==
    /\ Len(pendingChanges.outgoing) < MaxOutgoing
    /\ \E c \in ClientIds, t \in Trees, isPersistent \in BOOLEAN, isIgnored \in BOOLEAN :
        Commit(Notify(
            [Current EXCEPT !.store = BlockChange(@, c, t, isPersistent, isIgnored)]))
    /\ UNCHANGED <<mounted, props, source>>

\* A selection change of the store not made by this hook.
StoreSelect ==
    /\ Len(pendingChanges.outgoing) < MaxOutgoing
    /\ Commit(Notify(
            [Current EXCEPT !.store.selectionStart = UserPosition,
                            !.store.selectionEnd = UserPosition]))
    /\ UNCHANGED <<mounted, props, source>>

Next == Mount \/ Rerender \/ Unmount \/ StoreEdit \/ StoreSelect

Spec == Init /\ [][Next]_vars

----------------------------------------------------------------------------
(* Reading the log of an action.                                           *)

StoreCallOps ==
    {"resetBlocks", "replaceInnerBlocks", "setHasControlledInnerBlocks",
     "markNextChangeAsNotPersistent", "resetSelection"}
CallbackOps == {"onChange", "onInput"}

IsStoreCall(e) == e.op \in StoreCallOps
IsCallback(e) == e.op \in CallbackOps
IsResetSelection(e) == e.op = "resetSelection"
IsBlockReset(e) == e.op \in {"resetBlocks", "replaceInnerBlocks"}

StoreCalls(lg) == SelectSeq(lg, IsStoreCall)
Callbacks(lg) == SelectSeq(lg, IsCallback)

\* The inbound effect ran in the action that wrote lg, and with what.
EffectRan(lg) == \E i \in 1..Len(lg) : lg[i].op = "effect"
EffectOf(lg) == lg[CHOOSE i \in 1..Len(lg) : lg[i].op = "effect"]

\* The notifications the subscriber received in the action that wrote lg,
\* and the callbacks the subscriber made on the i-th event's notification.
Notifications(lg) == {i \in 1..Len(lg) : lg[i].op = "notify"}
EndOfNotification(lg, i) ==
    IF \E j \in Notifications(lg) : j > i
    THEN (CHOOSE j \in Notifications(lg) :
              j > i /\ \A k \in Notifications(lg) : k > i => j <= k) - 1
    ELSE Len(lg)
CallbacksOf(lg, i) == Callbacks(SubSeq(lg, i + 1, EndOfNotification(lg, i)))

----------------------------------------------------------------------------
(* The scenario of an external source that only reflects: the parent keeps  *)
(* the trees it receives through onChange and onInput and renders the hook  *)
(* again with them, by reference and in order (a render may skip to a      *)
(* later one); the user makes at most MaxEdits changes in the store.       *)

\* The trees the parent has yet to reflect after a handler that ran to s.
Received(queue, s) ==
    queue \o [k \in 1..Len(Callbacks(s.log)) |-> Callbacks(s.log)[k].blocks]

\* The first render, of an enabled hook.
ReflectingMount ==
    /\ ~mounted
    /\ \E p \in PropsSet : \E inp \in Inputs(NoProps, p, TRUE) :
        /\ ~p.isDisabled
        /\ mounted' = TRUE
        /\ props' = p
        /\ LET s == RunEffects(Current, NoProps, p, inp, TRUE)
           IN  /\ Commit(s)
               /\ source' = [source EXCEPT !.received = Received(source.received, s)]

\* The user changes blocks in the store.
UserEdit ==
    /\ mounted
    /\ source.edits > 0
    /\ \E c \in ClientIds, t \in Trees, isPersistent \in BOOLEAN, isIgnored \in BOOLEAN :
        LET s == Notify([Current EXCEPT
                            !.store = BlockChange(@, c, t, isPersistent, isIgnored)])
        IN  /\ Commit(s)
            /\ source' = [received |-> Received(source.received, s), edits |-> source.edits - 1]
    /\ UNCHANGED <<mounted, props>>

\* The user moves the caret.
UserSelect ==
    /\ mounted
    /\ source.edits > 0
    /\ LET s == Notify([Current EXCEPT !.store.selectionStart = UserPosition,
                                      !.store.selectionEnd = UserPosition])
       IN  /\ Commit(s)
           /\ source' = [received |-> Received(source.received, s), edits |-> source.edits - 1]
    /\ UNCHANGED <<mounted, props>>

\* The parent renders the hook with the k-th tree it has received and not
\* yet reflected, and drops the ones before it.
Reflect ==
    /\ mounted
    /\ source.received # <<>>
    /\ \E k \in 1..Len(source.received) :
        LET p == [props EXCEPT !.value = source.received[k]]
        IN  \E inp \in Inputs(props, p, FALSE) :
            LET s == RunEffects(Current, props, p, inp, FALSE)
            IN  /\ props' = p
                /\ Commit(s)
                /\ source' = [source EXCEPT !.received =
                       Received(SubSeq(source.received, k + 1,
                                       Len(source.received)), s)]
    /\ UNCHANGED mounted

NextReflecting == ReflectingMount \/ UserEdit \/ UserSelect \/ Reflect

\* The parent renders again after each callback it receives; the user may
\* stop at any time.
SpecReflecting == Init /\ [][NextReflecting]_vars /\ WF_vars(Reflect)

----------------------------------------------------------------------------
\* C1 (no self-echo): a run of the inbound effect with a value that is the
\* last entry of pendingChanges.outgoing makes no store call, leaves incoming
\* as it was and empties outgoing.
C1_NoSelfEcho ==
    [][(/\ EffectRan(log')
        /\ pendingChanges.outgoing # <<>>
        /\ Last(pendingChanges.outgoing) = EffectOf(log').value)
       => /\ StoreCalls(log') = <<>>
          /\ pendingChanges'.incoming = pendingChanges.incoming
          /\ pendingChanges'.outgoing = <<>>]_vars

\* The effect has run on the echo of the latest push and emptied outgoing.
C1_Witness ==
    /\ EffectRan(log)
    /\ EffectOf(log).includes
    /\ EffectOf(log).value # Absent
    /\ pendingChanges.outgoing = <<>>
    /\ StoreCalls(log) = <<>>

\* C2 (stale-echo non-consumption): a run of the inbound effect with a value
\* that is in outgoing but is not its last entry leaves outgoing and incoming
\* as they were and makes no store call; a value found in outgoing empties it
\* only if it is the last entry.
C2_StaleEchoNotConsumed ==
    [][(/\ EffectRan(log')
        /\ Includes(pendingChanges.outgoing, EffectOf(log').value))
       => /\ Last(pendingChanges.outgoing) # EffectOf(log').value
                => /\ pendingChanges' = pendingChanges
                   /\ StoreCalls(log') = <<>>
          /\ pendingChanges'.outgoing = <<>>
                <=> Last(pendingChanges.outgoing) = EffectOf(log').value]_vars

\* The effect has run on an older entry of outgoing, which still ends with a
\* later push.
C2_Witness ==
    /\ EffectRan(log)
    /\ EffectOf(log).includes
    /\ Len(pendingChanges.outgoing) >= 2
    /\ Includes(pendingChanges.outgoing, EffectOf(log).value)
    /\ Last(pendingChanges.outgoing) # EffectOf(log).value

\* The block replacement a genuine reset of container c with value v makes.
ExpectedReset(c, v) ==
    IF c = NoClient
    THEN [op |-> "resetBlocks", blocks |-> v]
    ELSE [op |-> "replaceInnerBlocks", clientId |-> c, blocks |-> v]

BlockResets(lg) == SelectSeq(lg, IsBlockReset)
BlocksOf(cbs) == [k \in 1..Len(cbs) |-> cbs[k].blocks]

\* The inbound effect runs with a present value that is not in outgoing.
GenuineReset ==
    /\ EffectRan(log')
    /\ EffectOf(log').value # Absent
    /\ ~Includes(pendingChanges.outgoing, EffectOf(log').value)

\* C3 as stated (genuine external reset): after such a run outgoing is empty,
\* incoming equals the value, and the block tree was replaced exactly once.
C3_Original ==
    [][GenuineReset
       => /\ pendingChanges'.outgoing = <<>>
          /\ pendingChanges'.incoming = EffectOf(log').value
          /\ BlockResets(log') =
                <<ExpectedReset(EffectOf(log').clientId, EffectOf(log').value)>>]_vars

\* C3 amended: such a run replaces the block tree exactly once with the value
\* (resetBlocks at top level, replaceInnerBlocks of its own container); it
\* sets incoming to the value before the store is called, so the first
\* notification of the run sees it, and afterwards incoming is that value or
\* was cleared by a notification of the run; nothing queued in outgoing
\* before the run is left: outgoing holds exactly the trees the run's own
\* notifications forwarded.
C3_GenuineReset ==
    [][GenuineReset
       => LET v == EffectOf(log').value
              first == {i \in Notifications(log') :
                           \A j \in Notifications(log') : i <= j}
          IN  /\ BlockResets(log') = <<ExpectedReset(EffectOf(log').clientId, v)>>
              /\ \A i \in first : log'[i].incoming = v
              /\ pendingChanges'.incoming \in {v, Absent}
              /\ Notifications(log') = {} => pendingChanges'.incoming = v
              /\ pendingChanges'.outgoing = BlocksOf(Callbacks(log'))
              /\ \A k \in 1..Len(Callbacks(log')) :
                    Callbacks(log')[k].outgoing =
                        SubSeq(BlocksOf(Callbacks(log')), 1, k)]_vars

\* A genuine reset has run: one block replacement with the value, whose
\* notification consumed incoming.
C3_Witness ==
    /\ EffectRan(log)
    /\ ~EffectOf(log).includes
    /\ EffectOf(log).value # Absent
    /\ BlockResets(log) =
          <<ExpectedReset(EffectOf(log).clientId, EffectOf(log).value)>>
    /\ Notifications(log) # {}
    /\ pendingChanges = FreshPendingChanges

----------------------------------------------------------------------------
(* Notifications.                                                          *)

\* A step in which the store changed outside the hook and the subscriber
\* received the one notification of that change.
UserNotification == log' # <<>> /\ log'[1].op = "notify"

\* What the code's rules say of the notification of such a step, from the
\* closure before it and the store after the change.
NewBlocks == getBlocks(store', sub.clientId)
TreeChanged == NewBlocks # sub.blocks
Suppressed ==
    TreeChanged /\ (pendingChanges.incoming # Absent \/ store'.isIgnored)
PersistenceCommit ==
    /\ sub.previousAreBlocksDifferent
    /\ ~TreeChanged
    /\ store'.isPersistent
    /\ ~sub.isPersistent

\* C4 (incoming suppression): a notification with a changed tree that finds
\* incoming set clears incoming, records the tree and the persistence flag
\* as observed, appends nothing to outgoing and calls no callback.
C4_IncomingSuppression ==
    [][/\ (UserNotification /\ pendingChanges.incoming # Absent /\ TreeChanged)
          => /\ pendingChanges'.incoming = Absent
             /\ sub'.blocks = NewBlocks
             /\ sub'.isPersistent = store'.isPersistent
             /\ pendingChanges'.outgoing = pendingChanges.outgoing
             /\ Callbacks(log') = <<>>
       /\ \A i \in Notifications(log') :
            log'[i].incoming # Absent /\ log'[i].areBlocksDifferent
                => CallbacksOf(log', i) = <<>>]_vars

\* A change of the store outside the hook was swallowed by a set incoming.
C4_Witness ==
    /\ Len(log) = 1
    /\ log[1].op = "notify"
    /\ log[1].incoming # Absent
    /\ log[1].areBlocksDifferent
    /\ ~log[1].isIgnored
    /\ pendingChanges.incoming = Absent
    /\ sub.blocks = log[1].newBlocks

\* C5 as stated (ignored-change suppression): no notification the store
\* reports as ignored calls a callback or appends to outgoing, whether or
\* not the tree changed.
C5_Original ==
    [][/\ \A i \in Notifications(log') :
            log'[i].isIgnored => CallbacksOf(log', i) = <<>>
       /\ (UserNotification /\ store'.isIgnored)
            => pendingChanges'.outgoing = pendingChanges.outgoing]_vars

\* The step keeps the subscription, so that the notifications of the action
\* before it and its own went, in this order, to one subscriber.
SameSubscription ==
    /\ mounted /\ mounted'
    /\ sub.subscribed /\ sub'.subscribed
    /\ ~OutboundDepsChanged(props, props')

Max(S) == CHOOSE x \in S : \A y \in S : y <= x
NotificationRecord(lg, i) == [n |-> lg[i], cbs |-> CallbacksOf(lg, i)]

\* The pairs <<a, b>> of consecutive notifications of one subscription, b
\* the i-th event of this step and a the notification before it: one of this
\* step, or else the last one of the step before.
ConsecutiveNotifications ==
    {<<IF \E j \in Notifications(log') : j < i
       THEN NotificationRecord(log', Max({j \in Notifications(log') : j < i}))
       ELSE NotificationRecord(log, Max(Notifications(log))),
       NotificationRecord(log', i)>> :
        i \in {i \in Notifications(log') :
                  \/ \E j \in Notifications(log') : j < i
                  \/ SameSubscription /\ Notifications(log) # {}}}

\* C6 (persistence commit): of two consecutive notifications of a
\* subscription, the first with a changed tree, not persistent and not
\* suppressed, the second with the same tree and the flag now true, the first
\* calls onInput once and the second onChange once (and not onInput) with
\* that tree; a notification that follows a commit with the same tree and
\* the flag still true calls nothing.
C6_PersistenceCommit ==
    [][\A pair \in ConsecutiveNotifications :
         LET a == pair[1]
             b == pair[2]
         IN  /\ (/\ a.n.areBlocksDifferent
                 /\ ~a.n.newIsPersistent
                 /\ a.n.incoming = Absent /\ ~a.n.isIgnored
                 /\ b.n.newBlocks = a.n.newBlocks
                 /\ b.n.newIsPersistent)
                => /\ Len(a.cbs) = 1
                   /\ a.cbs[1].op = "onInput"
                   /\ a.cbs[1].blocks = a.n.newBlocks
                   /\ Len(b.cbs) = 1
                   /\ b.cbs[1].op = "onChange"
                   /\ b.cbs[1].blocks = a.n.newBlocks
                   /\ ~b.n.areBlocksDifferent
                   /\ b.n.didPersistenceChange
             /\ (/\ ~a.n.areBlocksDifferent
                 /\ a.n.didPersistenceChange
                 /\ b.n.newBlocks = a.n.newBlocks
                 /\ b.n.newIsPersistent)
                => b.cbs = <<>>]_vars

\* A change outside the hook that only turned the persistence flag on was
\* forwarded as the commit of the tree pushed just before it.
C6_Witness ==
    /\ Len(log) = 2
    /\ log[1].op = "notify"
    /\ ~log[1].areBlocksDifferent
    /\ log[1].didPersistenceChange
    /\ log[2].op = "onChange"
    /\ Len(pendingChanges.outgoing) >= 2
    /\ Last(pendingChanges.outgoing) = log[1].newBlocks
    /\ pendingChanges.outgoing[Len(pendingChanges.outgoing) - 1] = log[1].newBlocks

\* C7 as stated (disabled bridge): whenever the disabled input is true no
\* subscription of the bridge is active and no callback is called.
C7_Original ==
    (mounted /\ props.isDisabled) => (~sub.subscribed /\ Callbacks(log) = <<>>)

\* C8 (outbound forwarding): a notification that is not suppressed and has a
\* changed tree or is a persistence commit appends that tree to the end of
\* outgoing and then calls exactly one callback once, onChange if the store
\* reports the change persistent and onInput otherwise, with that tree and
\* the store's selection; one that is neither calls nothing and leaves
\* outgoing as it was.
C8_OutboundForwarding ==
    [][/\ UserNotification
          => /\ (~Suppressed /\ (TreeChanged \/ PersistenceCommit))
                => /\ pendingChanges'.outgoing =
                          Append(pendingChanges.outgoing, NewBlocks)
                   /\ Callbacks(log') =
                        <<[op |-> IF store'.isPersistent
                                  THEN "onChange" ELSE "onInput",
                           fn |-> IF store'.isPersistent
                                  THEN props.onChange ELSE props.onInput,
                           blocks |-> NewBlocks,
                           selectionStart |-> store'.selectionStart,
                           selectionEnd |-> store'.selectionEnd,
                           outgoing |->
                               Append(pendingChanges.outgoing, NewBlocks)]>>
             /\ (~TreeChanged /\ ~PersistenceCommit)
                => /\ Callbacks(log') = <<>>
                   /\ pendingChanges'.outgoing = pendingChanges.outgoing
       /\ \A i \in Notifications(log') :
            LET e == log'[i]
                cbs == CallbacksOf(log', i)
            IN  /\ ((e.areBlocksDifferent /\ e.incoming = Absent /\ ~e.isIgnored)
                        \/ e.didPersistenceChange)
                    => /\ Len(cbs) = 1
                       /\ cbs[1].op = IF e.newIsPersistent
                                       THEN "onChange" ELSE "onInput"
                       /\ cbs[1].blocks = e.newBlocks
                       /\ cbs[1].outgoing # <<>>
                       /\ Last(cbs[1].outgoing) = e.newBlocks
                /\ (~e.areBlocksDifferent /\ ~e.didPersistenceChange)
                    => cbs = <<>>]_vars

\* A persistent change of the tree outside the hook was forwarded through
\* onChange behind an entry that was already queued.
C8_Witness ==
    /\ Len(log) = 2
    /\ log[1].op = "notify"
    /\ log[1].areBlocksDifferent
    /\ log[2].op = "onChange"
    /\ log[2].blocks = log[1].newBlocks
    /\ log[2].outgoing = pendingChanges.outgoing
    /\ Len(pendingChanges.outgoing) >= 2
    /\ Last(pendingChanges.outgoing) = log[1].newBlocks

\* C9 as stated (absent external value): a run of the inbound effect with
\* the value absent makes no store call.
C9_Original ==
    (EffectRan(log) /\ EffectOf(log).value = Absent) => StoreCalls(log) = <<>>

\* C10 (selection reset): a run of the inbound effect calls resetSelection
\* once, with both bounds, if it does not find the value in outgoing and
\* both selection props are present, and otherwise not at all; without such
\* a run resetSelection is not called.
C10_SelectionReset ==
    [][LET rs == SelectSeq(log', IsResetSelection)
       IN  IF /\ EffectRan(log')
              /\ ~Includes(pendingChanges.outgoing, EffectOf(log').value)
              /\ EffectOf(log').selectionStart # NoPosition
              /\ EffectOf(log').selectionEnd # NoPosition
           THEN rs = <<[op |-> "resetSelection",
                        selectionStart |-> EffectOf(log').selectionStart,
                        selectionEnd |-> EffectOf(log').selectionEnd]>>
           ELSE rs = <<>>]_vars

\* A reset imposed the controlled selection after replacing the blocks.
C10_Witness ==
    /\ EffectRan(log)
    /\ ~EffectOf(log).includes
    /\ EffectOf(log).value # Absent
    /\ EffectOf(log).selectionStart # NoPosition
    /\ EffectOf(log).selectionEnd # NoPosition
    /\ Len(SelectSeq(log, IsResetSelection)) = 1
    /\ store.selectionStart = ControlledStart
    /\ store.selectionEnd = ControlledEnd

----------------------------------------------------------------------------
(* The life of pendingChanges and of the subscription.                     *)

\* A render that changes clientId: both effects run again.
ContainerChanged ==
    /\ mounted /\ mounted'
    /\ props'.clientId # props.clientId

FirstNotification(lg) ==
    CHOOSE i \in Notifications(lg) : \A j \in Notifications(lg) : i <= j

\* C11 as stated (pendingChanges lifecycle): when the hook reattaches because
\* clientId changes it starts from a fresh pendingChanges: the first run of
\* the inbound effect for the new container finds nothing in outgoing,
\* nothing that was queued for the previous container is left afterwards,
\* and the first notification finds in incoming only what that run put there.
C11_Original ==
    [][ContainerChanged
       => /\ ~EffectOf(log').includes
          /\ pendingChanges'.outgoing = BlocksOf(Callbacks(log'))
          /\ Notifications(log') # {}
                => log'[FirstNotification(log')].incoming = props'.value]_vars

\* A step that removes the subscription: an unmount, or a render that
\* changes one of the dependencies of the outbound effect.
TearsDown ==
    /\ mounted
    /\ ~mounted' \/ OutboundDepsChanged(props, props')

\* C12 (subscription teardown): the hook never has more than one listener
\* registered with the store, and a registered listener is the one of the
\* current clientId, onChange and onInput; every callback an action makes is
\* a callback of the render the action ends in; a step that tears the
\* subscription down without installing a new one, and every step of an
\* unsubscribed hook, delivers no notification, calls no callback, and
\* (renders and unmount apart) leaves pendingChanges as it was.
C12_SubscriptionTeardown ==
    [][/\ store'.listeners = (IF sub'.subscribed THEN 1 ELSE 0)
       /\ sub'.subscribed
            => /\ mounted'
               /\ sub'.clientId = props'.clientId
               /\ sub'.onChange = props'.onChange
               /\ sub'.onInput = props'.onInput
       /\ \A k \in 1..Len(Callbacks(log')) :
            Callbacks(log')[k].fn =
                IF Callbacks(log')[k].op = "onChange"
                THEN props'.onChange ELSE props'.onInput
       /\ ~sub'.subscribed
            => /\ Notifications(log') = {}
               /\ Callbacks(log') = <<>>
               /\ (mounted' = mounted /\ props' = props)
                    => pendingChanges' = pendingChanges
       /\ (TearsDown /\ ~mounted')
            => ~sub'.subscribed /\ pendingChanges' = FreshPendingChanges]_vars

\* A new subscriber, which has not seen a notification yet, replaced the one
\* that had pushed the tree the inbound effect has just found in outgoing.
C12_Witness ==
    /\ EffectRan(log)
    /\ EffectOf(log).includes
    /\ sub.subscribed
    /\ sub.blocks = Absent
    /\ store.listeners = 1
    /\ pendingChanges.outgoing # <<>>

\* C13 as stated (no outward echo of an inbound reset): when an enabled hook
\* makes a genuine reset, none of the notifications its store calls deliver
\* calls onChange or onInput or appends to outgoing, for a top-level hook and
\* for a container, at mount and later.
C13_Original ==
    [][(GenuineReset /\ ~props'.isDisabled)
       => /\ Callbacks(log') = <<>>
          /\ pendingChanges'.outgoing = <<>>]_vars

----------------------------------------------------------------------------
(* The round trip of an edit.                                              *)

\* An enabled top-level hook whose value is the tree of the store and of
\* its subscriber, with nothing pending: the state a mount with a value
\* leaves.
SyncedTopLevel ==
    /\ mounted
    /\ props.clientId = NoClient
    /\ ~props.isDisabled
    /\ props.value # Absent
    /\ sub.subscribed
    /\ sub.blocks = props.value
    /\ getBlocks(store, NoClient) = props.value
    /\ pendingChanges = FreshPendingChanges

\* C14 (round trip of a top-level hook): the mount of an enabled top-level
\* hook with a value (the empty tree included) leaves the store and the
\* subscriber at that value with nothing pending and calls no callback; from
\* there a persistent change of the top-level tree to T, not ignored, calls
\* onChange(T, selection) once and nothing else and leaves outgoing = <<T>>;
\* and when the value then becomes T, outgoing is emptied and the store is
\* not called at all.
C14_RoundTrip ==
    [][/\ (/\ ~mounted /\ mounted'
           /\ props'.clientId = NoClient
           /\ ~props'.isDisabled
           /\ props'.value # Absent)
          => SyncedTopLevel' /\ Callbacks(log') = <<>>
       /\ (/\ SyncedTopLevel
           /\ UserNotification
           /\ TreeChanged
           /\ store'.isPersistent /\ ~store'.isIgnored)
          => /\ Callbacks(log') =
                  <<[op |-> "onChange", fn |-> props.onChange,
                     blocks |-> NewBlocks,
                     selectionStart |-> store'.selectionStart,
                     selectionEnd |-> store'.selectionEnd,
                     outgoing |-> <<NewBlocks>>]>>
             /\ pendingChanges' = [incoming |-> Absent, outgoing |-> <<NewBlocks>>]
             /\ sub'.blocks = NewBlocks
       /\ (/\ mounted /\ mounted'
           /\ props.clientId = NoClient /\ props'.clientId = NoClient
           /\ props'.value # props.value
           /\ pendingChanges.outgoing = <<props'.value>>)
          => /\ EffectRan(log')
             /\ pendingChanges'.outgoing = <<>>
             /\ pendingChanges'.incoming = pendingChanges.incoming
             /\ StoreCalls(log') = <<>>
             /\ store' = store]_vars

\* The value has become the tree a persistent edit put into the store and
\* the subscriber forwarded: the queue is empty and the store was not reset.
C14_Witness ==
    /\ mounted /\ ~props.isDisabled
    /\ EffectRan(log)
    /\ EffectOf(log).includes
    /\ EffectOf(log).clientId = NoClient
    /\ EffectOf(log).value = getBlocks(store, NoClient)
    /\ EffectOf(log).value # EmptyTree
    /\ sub.blocks = EffectOf(log).value
    /\ store.isPersistent /\ ~store.isIgnored
    /\ pendingChanges = FreshPendingChanges
    /\ StoreCalls(log) = <<>>

----------------------------------------------------------------------------
(* The invariant of pendingChanges.                                        *)

\* incoming changes only by being set to its value by a run of the inbound
\* effect that does not find the value in outgoing, or by being cleared:
\* by a notification that found it set, or with the ref at unmount.  So it
\* is always null or the value of the last such run, not yet consumed.
IncomingTracksReset ==
    /\ (EffectRan(log')
          /\ ~Includes(pendingChanges.outgoing, EffectOf(log').value))
        => pendingChanges'.incoming \in {EffectOf(log').value, Absent}
    /\ pendingChanges'.incoming # pendingChanges.incoming
        => \/ /\ EffectRan(log')
              /\ ~Includes(pendingChanges.outgoing, EffectOf(log').value)
              /\ pendingChanges'.incoming = EffectOf(log').value
           \/ /\ pendingChanges'.incoming = Absent
              /\ \/ ~mounted'
                 \/ \E i \in Notifications(log') :
                        log'[i].incoming # Absent /\ log'[i].areBlocksDifferent

\* C15 as stated (pendingChanges invariant): after a run of the inbound
\* effect whose value matches any entry of outgoing, or is a new external
\* value, outgoing is empty; and incoming is always null or the value of
\* the most recent reset not yet consumed.
C15_Original ==
    [][/\ EffectRan(log') => pendingChanges'.outgoing = <<>>
       /\ IncomingTracksReset]_vars

\* C15 amended: a run of the inbound effect whose value is the last entry of
\* outgoing leaves outgoing empty; one whose value is only an older entry
\* leaves outgoing as it was; one whose value is not in outgoing empties it
\* before the store is called, so that afterwards it holds no entry queued
\* before the run, only the trees the notifications of the run's own store
\* calls pushed; and incoming is always null or the value of the most recent
\* reset not yet consumed by a notification.
C15_PendingChanges ==
    [][/\ EffectRan(log')
          => LET v == EffectOf(log').value
                 out == pendingChanges.outgoing
             IN  IF Includes(out, v)
                 THEN pendingChanges'.outgoing =
                          (IF Last(out) = v THEN <<>> ELSE out)
                 ELSE pendingChanges'.outgoing = BlocksOf(Callbacks(log'))
       /\ IncomingTracksReset]_vars

\* A subscribed hook has reset the store to its value and no notification
\* has consumed incoming: the one reset in flight.
C15_Witness ==
    /\ EffectRan(log)
    /\ ~EffectOf(log).includes
    /\ EffectOf(log).value # Absent
    /\ BlockResets(log) # <<>>
    /\ sub.subscribed
    /\ pendingChanges.incoming = EffectOf(log).value
    /\ pendingChanges.outgoing = <<>>

----------------------------------------------------------------------------
(* The first notification of a subscriber.                                 *)

\* The first notification of the step is the first one its subscriber
\* receives: the outbound effect subscribes in this step, or has subscribed
\* and observed nothing yet.
SubscriberIsNew ==
    \/ ~mounted /\ mounted'
    \/ mounted /\ mounted' /\ OutboundDepsChanged(props, props')
    \/ SameSubscription /\ sub.blocks = Absent

\* The tree of the subscriber's container and the selection in the store
\* when the i-th event of the step, a notification, is delivered.
TreeAt(i) ==
    IF i > 1 /\ IsBlockReset(log'[i - 1])
    THEN log'[i - 1].blocks
    ELSE IF i > 1 THEN getBlocks(store, props'.clientId)
         ELSE getBlocks(store', props'.clientId)

SelectionAt(i) ==
    IF i > 1 /\ IsResetSelection(log'[i - 1])
    THEN <<log'[i - 1].selectionStart, log'[i - 1].selectionEnd>>
    ELSE IF i > 1 THEN <<store.selectionStart, store.selectionEnd>>
         ELSE <<store'.selectionStart, store'.selectionEnd>>

\* C16 (first notification after subscribing): the first notification a
\* subscriber receives counts as a change of the tree whether or not the
\* store's tree changed; it is suppressed, with no callback, if incoming is
\* set or the change is ignored, and otherwise forwarded by exactly one call
\* of onChange or onInput with the current tree and selection.
C16_FirstNotification ==
    [][(SubscriberIsNew /\ Notifications(log') # {})
       => LET i == FirstNotification(log')
              e == log'[i]
              cbs == CallbacksOf(log', i)
          IN  /\ e.areBlocksDifferent
              /\ e.newBlocks = TreeAt(i)
              /\ IF e.incoming # Absent \/ e.isIgnored
                 THEN cbs = <<>>
                 ELSE cbs =
                      <<[op |-> IF e.newIsPersistent
                                THEN "onChange" ELSE "onInput",
                         fn |-> IF e.newIsPersistent
                                THEN props'.onChange ELSE props'.onInput,
                         blocks |-> TreeAt(i),
                         selectionStart |-> SelectionAt(i)[1],
                         selectionEnd |-> SelectionAt(i)[2],
                         outgoing |->
                             Append(IF i > 1 THEN <<>>
                                    ELSE pendingChanges.outgoing,
                                    TreeAt(i))]>>]_vars

\* A hook without a value has reset the selection only, and its new
\* subscriber forwarded the tree of the store, which had not changed.
C16_Witness ==
    /\ EffectRan(log)
    /\ EffectOf(log).value = Absent
    /\ BlockResets(log) = <<>>
    /\ Notifications(log) # {}
    /\ log[FirstNotification(log)].areBlocksDifferent
    /\ Len(Callbacks(log)) = 1
    /\ Callbacks(log)[1].blocks = getBlocks(store, props.clientId)
    /\ Callbacks(log)[1].selectionStart = ControlledStart

\* C17 as stated (persistence-transition bookkeeping): the persistence-commit
\* decision of a notification uses the areBlocksDifferent of the
\* notification just before it of the same subscription, also when that one
\* was suppressed: when that one had a changed tree and was not persistent,
\* and this one has the same tree and is persistent, this one is a commit;
\* and a commit always follows a notification with a changed tree.
C17_Original ==
    [][\A pair \in ConsecutiveNotifications :
         LET a == pair[1].n
             b == pair[2].n
         IN  /\ (/\ a.areBlocksDifferent
                 /\ ~a.newIsPersistent
                 /\ ~b.areBlocksDifferent
                 /\ b.newIsPersistent)
                => b.didPersistenceChange
             /\ b.didPersistenceChange => a.areBlocksDifferent]_vars

\* C18 as stated (no user edit swallowed by a stale incoming): the incoming a
\* reset of a subscribed hook sets is consumed by a notification of that
\* reset, also when the reset leaves the store's tree as the subscriber had
\* observed it; and every change of the store outside the hook that is not
\* ignored and changes the tree of the hook's container calls exactly one
\* callback.
C18_Original ==
    [][/\ (GenuineReset /\ sub'.subscribed)
          => pendingChanges'.incoming = Absent
       /\ (/\ UserNotification
           /\ ~store'.isIgnored
           /\ getBlocks(store', sub.clientId) # getBlocks(store, sub.clientId))
          => Len(Callbacks(log')) = 1]_vars

----------------------------------------------------------------------------
(* The store calls of a reset.                                             *)

IsBlockCall(e) == IsStoreCall(e) /\ ~IsResetSelection(e)

\* The calls setControlledBlocks makes for container c and value v.
ExpectedCalls(c, v) ==
    IF c = NoClient
    THEN <<[op |-> "resetBlocks", blocks |-> v]>>
    ELSE <<[op |-> "setHasControlledInnerBlocks", clientId |-> c, flag |-> TRUE],
           [op |-> "markNextChangeAsNotPersistent"],
           [op |-> "replaceInnerBlocks", clientId |-> c, blocks |-> v]>>

\* C19 (container scoping of a reset): the store calls of a genuine reset,
\* the selection reset apart, are for a hook with clientId c exactly
\* setHasControlledInnerBlocks(c, true), then
\* __unstableMarkNextChangeAsNotPersistent(), then replaceInnerBlocks(c,
\* value), and for a hook without clientId exactly resetBlocks(value); the
\* blocks of every other container are left as they were.
C19_ContainerScoping ==
    [][GenuineReset
       => /\ SelectSeq(log', IsBlockCall) =
                ExpectedCalls(props'.clientId, props'.value)
          /\ \A c \in ClientIds \ {props'.clientId} :
                getBlocks(store', c) = getBlocks(store, c)
          /\ getBlocks(store', props'.clientId) = props'.value]_vars

\* A container hook has reset its inner blocks by the three calls, and the
\* top-level tree is another one.
C19_Witness ==
    /\ EffectRan(log)
    /\ EffectOf(log).clientId # NoClient
    /\ ~EffectOf(log).includes
    /\ EffectOf(log).value # Absent
    /\ SelectSeq(log, IsBlockCall) =
          ExpectedCalls(EffectOf(log).clientId, EffectOf(log).value)
    /\ getBlocks(store, EffectOf(log).clientId) = EffectOf(log).value
    /\ getBlocks(store, NoClient) # EffectOf(log).value

----------------------------------------------------------------------------
(* The reflecting source.                                                  *)

\* Nothing is pending in the hook and nothing is left to reflect.
Quiescent ==
    /\ pendingChanges.outgoing = <<>>
    /\ pendingChanges.incoming = Absent
    /\ source.received = <<>>

\* C20 as stated (no feedback loop): with a source that only reflects, by
\* reference and in order, the trees it received through the callbacks, and
\* a user who stops editing, no render with a reflected tree resets the
\* blocks of the store, and the system comes to rest with outgoing empty,
\* incoming null and nothing left to reflect.
C20_Original ==
    /\ [][(mounted /\ EffectRan(log')) => BlockResets(log') = <<>>]_vars
    /\ <>[]Quiescent

====
